---- MODULE Spec2Model ----
(***************************************************************************)
(* Model of the HTML keyword scanner ("Html Scanner/Html Scanner.cpp").    *)
(* One run of main() is a sequence of steps: usage check, one step per     *)
(* parsed argument, validation, one step per directory entry, report.      *)
(* The program may be invoked again on the file system the previous run    *)
(* left behind.  Strings are sequences of character codes (ASCII).         *)
(***************************************************************************)
EXTENDS Integers, Sequences, FiniteSets, TLC

VARIABLES args, pc, i, scanDirectory, outputFileName, keywords,
          outputFlagFound, entryIdx, foundFilesByKeyword, fs, opened,
          exitCode, error, traversalError, fsStart, runs

vars == <<args, pc, i, scanDirectory, outputFileName, keywords,
          outputFlagFound, entryIdx, foundFilesByKeyword, fs, opened,
          exitCode, error, traversalError, fsStart, runs>>

(* ----------------------------- bounds ---------------------------------- *)
\* longest argument vector (program name excluded) of the parsing cases
MaxArgs == 6
\* most keywords of an argument vector of the scanning cases
MaxKeywords == 2

(* ----------------------------- strings --------------------------------- *)
\* "/o" and "/O"
FlagLower == <<47, 111>>
FlagUpper == <<47, 79>>
\* "output.txt"
DefaultOutput == <<111, 117, 116, 112, 117, 116, 46, 116, 120, 116>>
\* ".html" and ".htm"
ExtHtml == <<46, 104, 116, 109, 108>>
ExtHtm == <<46, 104, 116, 109>>
\* "Scan results for directory: "
HeaderText == <<83, 99, 97, 110, 32, 114, 101, 115, 117, 108, 116, 115, 32,
                102, 111, 114, 32, 100, 105, 114, 101, 99, 116, 111, 114,
                121, 58, 32>>
\* "No files were found containing the specified keywords."
NoFilesText == <<78, 111, 32, 102, 105, 108, 101, 115, 32, 119, 101, 114,
                 101, 32, 102, 111, 117, 110, 100, 32, 99, 111, 110, 116,
                 97, 105, 110, 105, 110, 103, 32, 116, 104, 101, 32, 115,
                 112, 101, 99, 105, 102, 105, 101, 100, 32, 107, 101, 121,
                 119, 111, 114, 100, 115, 46>>
\* fifty "="
RuleText == [j \in 1..50 |-> 61]
\* "Files containing keyword: " followed by a double quote
SectionText == <<70, 105, 108, 101, 115, 32, 99, 111, 110, 116, 97, 105,
                 110, 105, 110, 103, 32, 107, 101, 121, 119, 111, 114, 100,
                 58, 32, 34>>
QuoteText == <<34>>

\* the working directory of the process, "/w/", and the paths of the tree
CwdPrefix == <<47, 119, 47>>
\* "d": the one directory that exists below the working directory
RootDir == <<100>>
\* "d/p.html", "d/u", "d/q.htm", "d/s.HTML", "d/.htm"
PathP == <<100, 47, 112, 46, 104, 116, 109, 108>>
PathU == <<100, 47, 117>>
PathQ == <<100, 47, 113, 46, 104, 116, 109>>
PathS == <<100, 47, 115, 46, 72, 84, 77, 76>>
PathDot == <<100, 47, 46, 104, 116, 109>>
\* the order in which the directory iterator surfaces the entries of "d"
TreeOrder == <<PathP, PathU, PathQ, PathS, PathDot>>

\* "A", "a", "b", ""
WordUpper == <<65>>
WordLower == <<97>>
WordOther == <<98>>
EmptyWord == <<>>

npos == -1

(* --------------------------- pure functions ---------------------------- *)
Range(s) == {s[j] : j \in 1..Len(s)}

\* std::tolower in the "C" locale, applied to every character
ToLower_Identity(str) == str
ToLower(str) == [j \in 1..Len(str) |-> IF str[j] >= 65 /\ str[j] <= 90
                                          THEN str[j] + 32 ELSE str[j]]

\* std::string::find(needle): first offset (from 0) of needle, or npos
RECURSIVE FindFrom(_, _, _)
FindFrom(hay, needle, pos) ==
    IF pos + Len(needle) > Len(hay) THEN npos
    ELSE IF SubSeq(hay, pos + 1, pos + Len(needle)) = needle THEN pos
    ELSE FindFrom(hay, needle, pos + 1)

Find(hay, needle) == FindFrom(hay, needle, 0)

\* std::string operator< : lexicographic on the character codes
RECURSIVE StrLess(_, _)
StrLess(a, b) ==
    IF b = <<>> THEN FALSE
    ELSE IF a = <<>> THEN TRUE
    ELSE IF a[1] # b[1] THEN a[1] < b[1]
    ELSE StrLess(Tail(a), Tail(b))

\* position of the last occurrence of character c in s, 0 when absent
RECURSIVE LastIndexOf(_, _, _)
LastIndexOf(s, c, k) ==
    IF k = 0 THEN 0 ELSE IF s[k] = c THEN k ELSE LastIndexOf(s, c, k - 1)

\* std::filesystem::path::filename
Filename(path) == SubSeq(path, LastIndexOf(path, 47, Len(path)) + 1, Len(path))

\* std::filesystem::path::extension
Extension(path) ==
    LET name == Filename(path)
        dot == LastIndexOf(name, 46, Len(name))
    IN IF name = <<46>> \/ name = <<46, 46>> \/ dot <= 1 THEN <<>>
       ELSE SubSeq(name, dot, Len(name))

\* std::filesystem::absolute for a relative path
Absolute(path) == CwdPrefix \o path

(* ----------------------------- file system ----------------------------- *)
Absent == [kind |-> "absent", openable |-> TRUE, lines |-> <<>>]
EmptyDir == [kind |-> "dir", openable |-> TRUE, lines |-> <<>>]
LockedDir == [kind |-> "lockeddir", openable |-> TRUE, lines |-> <<>>]
File(readable, content) == [kind |-> "file", openable |-> readable, lines |-> content]

IsDirectory(f, path) == path \in DOMAIN f /\ f[path].kind \in {"dir", "lockeddir"}
IsRegularFile(f, path) == f[path].kind = "file"

\* the entries recursive_directory_iterator surfaces, in order
Entries(f, dir) ==
    IF dir = RootDir
    THEN SelectSeq(TreeOrder, LAMBDA p : f[p].kind # "absent")
    ELSE <<>>

\* std::ofstream(name): fails on an empty name and on a directory
CanOpenForWrite(f, name) == name \in DOMAIN f /\ f[name].kind \in {"absent", "file"}

\* std::ofstream truncates (or creates) the file and the lines are written
WriteFile_Append(f, name, content) ==
    [f EXCEPT ![name] = [kind |-> "file", openable |-> @.openable,
                         lines |-> @.lines \o content]]
WriteFile(f, name, content) ==
    [f EXCEPT ![name] = [kind |-> "file", openable |-> @.openable,
                         lines |-> content]]

(* ------------------------- the containers ------------------------------ *)
\* std::set<std::string>::insert : a sorted sequence without duplicates
RECURSIVE SetInsert_Multi(_, _)
SetInsert_Multi(s, k) ==
    IF s = <<>> THEN <<k>>
    ELSE IF StrLess(k, s[1]) THEN <<k>> \o s
    ELSE <<s[1]>> \o SetInsert_Multi(Tail(s), k)

RECURSIVE SetInsert(_, _)
SetInsert(s, k) ==
    IF s = <<>> THEN <<k>>
    ELSE IF s[1] = k THEN s
    ELSE IF StrLess(k, s[1]) THEN <<k>> \o s
    ELSE <<s[1]>> \o SetInsert(Tail(s), k)

\* foundFilesByKeyword[key].push_back(path) on a std::map: the map is the
\* sequence of its (key, files) pairs in ascending key order
RECURSIVE MapAppend_Unordered(_, _, _)
MapAppend_Unordered(m, key, path) ==
    IF m = <<>> THEN << [key |-> key, files |-> <<path>>] >>
    ELSE IF m[1].key = key
         THEN << [key |-> key, files |-> Append(m[1].files, path)] >> \o Tail(m)
    ELSE <<m[1]>> \o MapAppend_Unordered(Tail(m), key, path)

RECURSIVE MapAppend(_, _, _)
MapAppend(m, key, path) ==
    IF m = <<>> THEN << [key |-> key, files |-> <<path>>] >>
    ELSE IF m[1].key = key
         THEN << [key |-> key, files |-> Append(m[1].files, path)] >> \o Tail(m)
    ELSE IF StrLess(key, m[1].key)
         THEN << [key |-> key, files |-> <<path>>] >> \o m
    ELSE <<m[1]>> \o MapAppend(Tail(m), key, path)

(* --------------------------- the scan of a file ------------------------ *)
\* the inner loop over the keywords for one line
RECURSIVE MatchLine(_, _, _, _)
MatchLine(line, kws, k, found) ==
    IF k > Len(kws) THEN found
    ELSE MatchLine(line, kws, k + 1,
                   IF Find(ToLower(line), ToLower(kws[k])) # npos
                   THEN SetInsert(found, kws[k]) ELSE found)

\* the getline loop: keywordsFoundInFile after the last line
RECURSIVE MatchFile(_, _, _, _)
MatchFile(lines, kws, n, found) ==
    IF n > Len(lines) THEN found
    ELSE MatchFile(lines, kws, n + 1, MatchLine(lines[n], kws, 1, found))

\* the loop over keywordsFoundInFile that records the path
RECURSIVE RecordFile(_, _, _, _)
RecordFile(m, found, k, path) ==
    IF k > Len(found) THEN m
    ELSE RecordFile(MapAppend(m, found[k], path), found, k + 1, path)

IsCandidate(f, path) ==
    IsRegularFile(f, path) /\ (Extension(path) = ExtHtml \/ Extension(path) = ExtHtm)

(* ------------------------------ the report ----------------------------- *)
RECURSIVE SectionLines(_, _)
SectionLines(m, k) ==
    IF k > Len(m) THEN <<>>
    ELSE << <<>>, RuleText, SectionText \o m[k].key \o QuoteText, RuleText >>
         \o m[k].files \o SectionLines(m, k + 1)

ReportLines(dir, m) ==
    << HeaderText \o Absolute(dir) >>
    \o (IF m = <<>> THEN << <<>>, NoFilesText >> ELSE SectionLines(m, 1))

(* ------------------------- argument vectors ---------------------------- *)
argCount == Len(args) + 1

IsFlagToken(arg) == arg = FlagLower \/ arg = FlagUpper

\* position k of the vector a is read as the /o flag
RECURSIVE ReadAsFlag(_, _)
ReadAsFlag(a, k) ==
    /\ k >= 2
    /\ k <= Len(a)
    /\ IsFlagToken(a[k])
    /\ ~ReadAsFlag(a, k - 1)

KeywordPositions(a) ==
    {k \in 2..Len(a) : ~ReadAsFlag(a, k) /\ ~ReadAsFlag(a, k - 1)}

\* the arguments of a at the positions P, in order
RECURSIVE Pick(_, _, _)
Pick(a, P, k) ==
    IF k > Len(a) THEN <<>>
    ELSE (IF k \in P THEN <<a[k]>> ELSE <<>>) \o Pick(a, P, k + 1)

RemoveAt(s, k) == SubSeq(s, 1, k - 1) \o SubSeq(s, k + 1, Len(s))

RECURSIVE Arrangements(_)
Arrangements(s) ==
    IF s = <<>> THEN {<<>>}
    ELSE UNION {{<<s[k]>> \o r : r \in Arrangements(RemoveAt(s, k))} : k \in 1..Len(s)}

\* the vectors that differ from a by a permutation of its keyword arguments
KeywordPermutations(a) ==
    LET P == KeywordPositions(a)
        rank(k) == Cardinality({x \in P : x <= k})
    IN {[k \in 1..Len(a) |-> IF k \in P THEN w[rank(k)] ELSE a[k]] :
            w \in Arrangements(Pick(a, P, 1))}

(* ------------------------------ Init ----------------------------------- *)
Tokens == {RootDir, FlagLower, FlagUpper, EmptyWord}
KeywordTokens == {WordUpper, WordLower, WordOther}

SeqsUpTo(S, n) == UNION {[1..m -> S] : m \in 0..n}

\* the scanning cases: "d", one to MaxKeywords keywords, and possibly an
\* output file, named before or after the keywords
OutputBefore == {<<>>, <<FlagLower, PathP>>, <<FlagLower, PathS>>}
OutputAfter == {<<>>, <<FlagUpper, PathP>>}
ScanVectors ==
    {<<RootDir>> \o o1 \o k \o o2 :
        o1 \in OutputBefore, o2 \in OutputAfter,
        k \in SeqsUpTo(KeywordTokens, MaxKeywords) \ {<<>>}}

FsPaths == (Tokens \ {EmptyWord}) \cup Range(TreeOrder) \cup {DefaultOutput}

\* "aa" on one line, "a" on the next
ContentQ == << <<97, 97>>, <<97>> >>
\* no line, an empty line, "B", and "a" followed by "Ba"
ContentsP == {<<>>, << <<>> >>, << <<66>> >>, << <<97>>, <<66, 97>> >>}

\* a file system: the tree below "d" and the files beside it
MakeFs(p, u, q, rest) ==
    [x \in FsPaths |->
        IF x = RootDir THEN EmptyDir
        ELSE IF x = PathP THEN p
        ELSE IF x = PathU THEN u
        ELSE IF x = PathQ THEN q
        ELSE IF x = PathS \/ x = PathDot THEN rest
        ELSE Absent]

ScanTrees ==
    {MakeFs(p, u, q, File(TRUE, << <<97>> >>)) :
        p \in {File(TRUE, c) : c \in ContentsP} \cup {Absent},
        u \in {EmptyDir, LockedDir},
        q \in {File(TRUE, ContentQ), File(FALSE, ContentQ), EmptyDir}}

\* the tree of the parsing cases: "d" holds an empty "d/p.html" and "d/q.htm"
ParseTrees == {MakeFs(File(TRUE, <<>>), Absent, File(TRUE, ContentQ), Absent)}

Init ==
    /\ \/ /\ args \in SeqsUpTo(Tokens, MaxArgs)
          /\ fs \in ParseTrees
       \/ /\ args \in ScanVectors
          /\ fs \in ScanTrees
    /\ fsStart = fs
    /\ pc = "usage"
    /\ i = 1
    /\ scanDirectory = <<>>
    /\ outputFileName = DefaultOutput
    /\ keywords = <<>>
    /\ outputFlagFound = FALSE
    /\ entryIdx = 1
    /\ foundFilesByKeyword = <<>>
    /\ opened = {}
    /\ exitCode = -1
    /\ error = "none"
    /\ traversalError = FALSE
    /\ runs = <<>>

(* ----------------------------- actions --------------------------------- *)
\* what is known of a run once main() has returned
Summary(code, kind, f) ==
    [args |-> args, fsStart |-> fsStart, fsEnd |-> f, exitCode |-> code,
     error |-> kind, scanDirectory |-> scanDirectory,
     outputFileName |-> outputFileName, keywords |-> keywords,
     index |-> foundFilesByKeyword, opened |-> opened,
     traversalError |-> traversalError,
     report |-> IF code = 0 THEN f[outputFileName].lines ELSE <<>>]

\* return from main()
Terminate(code, kind, f) ==
    /\ pc' = "exit"
    /\ exitCode' = code
    /\ error' = kind
    /\ fs' = f
    /\ runs' = Append(runs, Summary(code, kind, f))

\* one of the four "return 1" of argument handling
Fail_OutputTouched(kind) ==
    Terminate(1, kind, IF CanOpenForWrite(fs, outputFileName)
                       THEN WriteFile(fs, outputFileName, <<>>) ELSE fs)
Fail(kind) == Terminate(1, kind, fs)

Continue(next) ==
    /\ pc' = next
    /\ UNCHANGED <<exitCode, error, fs, runs>>

\* if (argCount < 3)
UsageCheck ==
    /\ pc = "usage"
    /\ IF argCount < 3 THEN Fail("UsageError") ELSE Continue("parse")
    /\ UNCHANGED <<args, i, scanDirectory, outputFileName, keywords,
                   outputFlagFound, entryIdx, foundFilesByKeyword, opened,
                   traversalError, fsStart>>

\* one iteration of the argument loop
ParseArg_FlagNotConsumed ==
    /\ pc = "parse"
    /\ i < argCount
    /\ LET arg == args[i] IN
         IF i = 1
         THEN scanDirectory' = arg /\ UNCHANGED <<outputFileName, outputFlagFound, keywords>>
         ELSE IF IsFlagToken(arg)
         THEN outputFlagFound' = TRUE /\ UNCHANGED <<scanDirectory, outputFileName, keywords>>
         ELSE IF outputFlagFound
         THEN /\ outputFileName' = arg
              /\ outputFlagFound' = FALSE
              /\ UNCHANGED <<scanDirectory, keywords>>
         ELSE keywords' = Append(keywords, arg)
              /\ UNCHANGED <<scanDirectory, outputFileName, outputFlagFound>>
    /\ i' = i + 1
    /\ UNCHANGED <<args, pc, entryIdx, foundFilesByKeyword, fs, opened,
                   exitCode, error, traversalError, fsStart, runs>>

ParseArg ==
    /\ pc = "parse"
    /\ i < argCount
    /\ LET arg == args[i] IN
         IF i = 1
         THEN scanDirectory' = arg /\ UNCHANGED <<outputFileName, outputFlagFound, keywords>>
         ELSE IF outputFlagFound
         THEN /\ outputFileName' = arg
              /\ outputFlagFound' = FALSE
              /\ UNCHANGED <<scanDirectory, keywords>>
         ELSE IF IsFlagToken(arg)
         THEN outputFlagFound' = TRUE /\ UNCHANGED <<scanDirectory, outputFileName, keywords>>
         ELSE keywords' = Append(keywords, arg)
              /\ UNCHANGED <<scanDirectory, outputFileName, outputFlagFound>>
    /\ i' = i + 1
    /\ UNCHANGED <<args, pc, entryIdx, foundFilesByKeyword, fs, opened,
                   exitCode, error, traversalError, fsStart, runs>>

\* the three checks after the loop, in the order of the code
ValidationError_KeywordsFirst(f, dir, kws, flag) ==
    IF kws = <<>> THEN "NoKeywords"
    ELSE IF dir = <<>> \/ ~IsDirectory(f, dir) THEN "InvalidDirectory"
    ELSE IF flag THEN "MissingOutputName"
    ELSE "none"
ValidationError_FlagFirst(f, dir, kws, flag) ==
    IF dir = <<>> \/ ~IsDirectory(f, dir) THEN "InvalidDirectory"
    ELSE IF flag THEN "MissingOutputName"
    ELSE IF kws = <<>> THEN "NoKeywords"
    ELSE "none"
ValidationError(f, dir, kws, flag) ==
    IF dir = <<>> \/ ~IsDirectory(f, dir) THEN "InvalidDirectory"
    ELSE IF kws = <<>> THEN "NoKeywords"
    ELSE IF flag THEN "MissingOutputName"
    ELSE "none"

Validate ==
    /\ pc = "parse"
    /\ i >= argCount
    /\ LET kind == ValidationError(fs, scanDirectory, keywords, outputFlagFound) IN
         IF kind # "none" THEN Fail(kind) ELSE Continue("scan")
    /\ foundFilesByKeyword' = <<>>
    /\ entryIdx' = 1
    /\ UNCHANGED <<args, i, scanDirectory, outputFileName, keywords,
                   outputFlagFound, opened, traversalError, fsStart>>

\* the body of the traversal loop for one entry, and the move to the next
ScanEntry ==
    /\ pc = "scan"
    /\ entryIdx <= Len(Entries(fs, scanDirectory))
    /\ LET path == Entries(fs, scanDirectory)[entryIdx] IN
         /\ fs[path].kind # "lockeddir"
         /\ IF IsCandidate(fs, path) /\ fs[path].openable
            THEN /\ opened' = opened \cup {path}
                 /\ foundFilesByKeyword' =
                      RecordFile(foundFilesByKeyword,
                                 MatchFile(fs[path].lines, keywords, 1, <<>>), 1, path)
            ELSE UNCHANGED <<opened, foundFilesByKeyword>>
    /\ entryIdx' = entryIdx + 1
    /\ UNCHANGED <<args, pc, i, scanDirectory, outputFileName, keywords,
                   outputFlagFound, fs, exitCode, error, traversalError,
                   fsStart, runs>>

\* the catch clauses: the error is logged and main() goes on to the report
CatchTraversalError_Rethrow ==
    /\ traversalError' = TRUE
    /\ Terminate(1, "TraversalError", fs)
CatchTraversalError ==
    /\ traversalError' = TRUE
    /\ Continue("report")

\* the iterator throws when it cannot descend into the directory it has
\* just surfaced (the entry itself is not a regular file and is skipped)
ScanThrow ==
    /\ pc = "scan"
    /\ entryIdx <= Len(Entries(fs, scanDirectory))
    /\ fs[Entries(fs, scanDirectory)[entryIdx]].kind = "lockeddir"
    /\ CatchTraversalError
    /\ UNCHANGED <<args, i, scanDirectory, outputFileName, keywords,
                   outputFlagFound, entryIdx, foundFilesByKeyword, opened,
                   fsStart>>

\* the output file is opened and the report written
WriteReport ==
    /\ \/ pc = "report"
       \/ pc = "scan" /\ entryIdx > Len(Entries(fs, scanDirectory))
    /\ IF ~CanOpenForWrite(fs, outputFileName)
       THEN Terminate(1, "OutputOpenError", fs)
       ELSE Terminate(0, "none",
                      WriteFile(fs, outputFileName,
                                ReportLines(scanDirectory, foundFilesByKeyword)))
    /\ UNCHANGED <<args, i, scanDirectory, outputFileName, keywords,
                   outputFlagFound, entryIdx, foundFilesByKeyword, opened,
                   traversalError, fsStart>>

\* the program is invoked again, with the same arguments or with its
\* keyword arguments permuted, on the file system the last run left
Rerun ==
    /\ pc = "exit"
    /\ Len(runs) = 1
    /\ args' \in KeywordPermutations(args)
    /\ fsStart' = fs
    /\ pc' = "usage"
    /\ i' = 1
    /\ scanDirectory' = <<>>
    /\ outputFileName' = DefaultOutput
    /\ keywords' = <<>>
    /\ outputFlagFound' = FALSE
    /\ entryIdx' = 1
    /\ foundFilesByKeyword' = <<>>
    /\ opened' = {}
    /\ exitCode' = -1
    /\ error' = "none"
    /\ traversalError' = FALSE
    /\ UNCHANGED <<fs, runs>>

Next ==
    \/ UsageCheck
    \/ ParseArg
    \/ Validate
    \/ ScanEntry
    \/ ScanThrow
    \/ WriteReport
    \/ Rerun

Spec == Init /\ [][Next]_vars

(* ------------------------- notions of the claims ----------------------- *)
ConfigErrors == {"UsageError", "InvalidDirectory", "NoKeywords", "MissingOutputName"}

\* the arguments were accepted: main() is past the validation
Parsed ==
    \/ pc \in {"scan", "report"}
    \/ pc = "exit" /\ error \notin ConfigErrors

\* the traversal of the current run is over
ScanEnded ==
    \/ pc = "report"
    \/ pc = "scan" /\ entryIdx > Len(Entries(fs, scanDirectory))
    \/ pc = "exit" /\ error \notin ConfigErrors

\* path f is listed under key k in the index m
Listed(m, k, f) == \E j \in 1..Len(m) : m[j].key = k /\ f \in Range(m[j].files)

Fold(c) == IF c \in 65..90 THEN c + 32 ELSE c

\* k occurs in line when both are folded to lower case
ContainsFolded(line, k) ==
    \E s \in 0..(Len(line) - Len(k)) : \A j \in 1..Len(k) : Fold(line[s + j]) = Fold(k[j])

\* the last component of f is a non-empty stem followed by .html or .htm
HasHtmlExtension(f) ==
    \E e \in {ExtHtml, ExtHtm} :
        /\ Len(f) > Len(e)
        /\ SubSeq(f, Len(f) - Len(e) + 1, Len(f)) = e
        /\ f[Len(f) - Len(e)] # 47

\* f is a file of the tree f0 that the scan of "d" reads and that holds k
ShouldList(f0, k, f) ==
    /\ f \in Range(TreeOrder)
    /\ f0[f].kind = "file"
    /\ HasHtmlExtension(f)
    /\ f0[f].openable
    /\ \E n \in 1..Len(f0[f].lines) : ContainsFolded(f0[f].lines[n], k)

FlagPositions(a) == {k \in 2..Len(a) : ReadAsFlag(a, k)}

Max(S) == CHOOSE x \in S : \A y \in S : y <= x

\* the part of a file system below the scan root
TreeOf(f) == [x \in Range(TreeOrder) |-> f[x]]

HasPrefix(s, pre) == Len(s) >= Len(pre) /\ SubSeq(s, 1, Len(pre)) = pre

\* the keys of the sections of a report, in the order of the report
SectionKeys(report) ==
    LET heads == SelectSeq(report, LAMBDA l : HasPrefix(l, SectionText))
    IN [j \in 1..Len(heads) |-> SubSeq(heads[j], Len(SectionText) + 1, Len(heads[j]) - 1)]

\* the report lists path f in the section of keyword k
ReportLists(report, k, f) ==
    \E s \in 1..Len(report) :
        /\ report[s] = SectionText \o k \o QuoteText
        /\ \E r \in (s + 2)..Len(report) :
              /\ report[r] = f
              /\ \A x \in (s + 2)..r : report[x] # <<>>

(* ------------------------------- C1 ------------------------------------ *)
\* C1: when the scan has ended without a traversal error, a path is listed
\* under a keyword of the run exactly when it is a regular file of the tree
\* with extension .html or .htm that could be opened and that has a line
\* containing the keyword, both folded to lower case.
C1_MatchIndexExact ==
    (ScanEnded /\ ~traversalError) =>
        \A k \in Range(keywords), f \in FsPaths :
            Listed(foundFilesByKeyword, k, f) <=> ShouldList(fsStart, k, f)

\* an upper-case keyword listed for a file that holds it in lower case only,
\* while another keyword of the run is not listed for that file
C1_Witness ==
    /\ ScanEnded /\ ~traversalError
    /\ Listed(foundFilesByKeyword, WordUpper, PathQ)
    /\ WordOther \in Range(keywords)
    /\ ~Listed(foundFilesByKeyword, WordOther, PathQ)

(* ------------------------------- C2 ------------------------------------ *)
\* C2: two consecutive runs whose argument vectors differ by a permutation
\* of the keywords, on the same tree, end with the same exit code and write
\* the same report, and the sections of every report are in strictly
\* ascending order of the keyword.
C2_KeywordOrderIrrelevant ==
    /\ \A j \in 1..(Len(runs) - 1) :
          (/\ runs[j + 1].args \in KeywordPermutations(runs[j].args)
           /\ TreeOf(runs[j].fsStart) = TreeOf(runs[j + 1].fsStart))
          => /\ runs[j].exitCode = runs[j + 1].exitCode
             /\ runs[j].report = runs[j + 1].report
    /\ \A j \in 1..Len(runs) :
          runs[j].exitCode = 0 =>
             LET keys == SectionKeys(runs[j].report)
             IN \A x, y \in 1..Len(keys) : x < y => StrLess(keys[x], keys[y])

\* two runs with the keywords given in different orders, the first in
\* descending order, both reporting two sections
C2_Witness ==
    /\ Len(runs) >= 2
    /\ runs[1].args # runs[2].args
    /\ TreeOf(runs[1].fsStart) = TreeOf(runs[2].fsStart)
    /\ runs[1].exitCode = 0
    /\ runs[1].keywords = <<WordOther, WordUpper>>
    /\ runs[2].keywords = <<WordUpper, WordOther>>
    /\ Len(SectionKeys(runs[2].report)) = 2

(* ------------------------------- C3 ------------------------------------ *)
\* C3 as stated: an existing directory first and a /o or /O token last
\* always ends with exit code 1 and MissingOutputName.
C3_AsStated ==
    (/\ pc = "exit"
     /\ Len(args) >= 2
     /\ IsDirectory(fsStart, args[1])
     /\ IsFlagToken(args[Len(args)]))
    => (exitCode = 1 /\ error = "MissingOutputName")

\* C3 amended: when the directory exists and the last argument is read as
\* the flag, the exit code is 1 and the error is MissingOutputName if some
\* argument is a keyword, NoKeywords otherwise.
C3_DanglingFlag ==
    (/\ pc = "exit"
     /\ Len(args) >= 2
     /\ IsDirectory(fsStart, args[1])
     /\ ReadAsFlag(args, Len(args)))
    => /\ exitCode = 1
       /\ error = IF KeywordPositions(args) = {} THEN "NoKeywords"
                  ELSE "MissingOutputName"

\* a run ended by a dangling flag after a keyword
C3_Witness ==
    /\ pc = "exit"
    /\ Len(args) >= 2
    /\ IsDirectory(fsStart, args[1])
    /\ ReadAsFlag(args, Len(args))
    /\ KeywordPositions(args) # {}
    /\ error = "MissingOutputName"

(* ------------------------------- C4 ------------------------------------ *)
\* C4: the error of a run is the first that applies of UsageError,
\* InvalidDirectory, NoKeywords, MissingOutputName, and each of them ends
\* the run with exit code 1.
C4_ValidationOrder ==
    pc = "exit" =>
        /\ IF Len(args) + 1 < 3 THEN error = "UsageError"
           ELSE IF args[1] = <<>> \/ ~IsDirectory(fsStart, args[1])
                THEN error = "InvalidDirectory"
           ELSE IF KeywordPositions(args) = {} THEN error = "NoKeywords"
           ELSE IF ReadAsFlag(args, Len(args)) THEN error = "MissingOutputName"
           ELSE error \notin ConfigErrors
        /\ error \in ConfigErrors => exitCode = 1

\* a vector with a bad directory, no keyword and a dangling flag at once
C4_Witness ==
    /\ pc = "exit"
    /\ Len(args) >= 2
    /\ ~IsDirectory(fsStart, args[1])
    /\ KeywordPositions(args) = {}
    /\ ReadAsFlag(args, Len(args))
    /\ error = "InvalidDirectory"

(* ------------------------------- C5 ------------------------------------ *)
\* C5: after a successful parse the output path is the argument after the
\* last token read as a flag (output.txt without one) and the keywords are
\* the arguments after the first that are neither read as a flag nor follow
\* one, in order.
C5_ParseResult ==
    Parsed =>
        /\ outputFileName = IF FlagPositions(args) = {} THEN DefaultOutput
                            ELSE args[Max(FlagPositions(args)) + 1]
        /\ keywords = Pick(args, KeywordPositions(args), 1)
        /\ scanDirectory = args[1]

\* two flags were read, the name after one of them is itself a flag token
C5_Witness ==
    /\ Parsed
    /\ Cardinality(FlagPositions(args)) >= 2
    /\ \E k \in FlagPositions(args) : IsFlagToken(args[k + 1])
    /\ outputFileName # args[(CHOOSE k \in FlagPositions(args) : \A x \in FlagPositions(args) : k <= x) + 1]

(* ------------------------------- C6 ------------------------------------ *)
\* C6: in every state no path occurs twice in the list of a keyword.
C6_NoDuplicatePath ==
    \A j \in 1..Len(foundFilesByKeyword) :
        \A x, y \in 1..Len(foundFilesByKeyword[j].files) :
            foundFilesByKeyword[j].files[x] = foundFilesByKeyword[j].files[y] => x = y

\* a keyword given twice, found on both lines of a file and twice on one
C6_Witness ==
    /\ \E x, y \in 1..Len(keywords) : x # y /\ keywords[x] = WordUpper /\ keywords[y] = WordUpper
    /\ Listed(foundFilesByKeyword, WordUpper, PathQ)
    /\ Listed(foundFilesByKeyword, WordUpper, PathP)

(* ------------------------------- C7 ------------------------------------ *)
\* C7: a run that ends in a configuration error has opened no file, has
\* not started the traversal and leaves the file system as it found it.
C7_ConfigErrorNoEffect ==
    (pc = "exit" /\ error \in ConfigErrors) =>
        /\ opened = {}
        /\ entryIdx = 1
        /\ foundFilesByKeyword = <<>>
        /\ fs = fsStart

\* a configuration error after an output name was read
C7_Witness ==
    /\ pc = "exit"
    /\ error \in ConfigErrors
    /\ outputFileName # DefaultOutput
    /\ CanOpenForWrite(fs, outputFileName)

(* ------------------------------- C8 ------------------------------------ *)
\* C8: after a traversal error no entry behind the failing one is read,
\* the run ends with the report step, the index and the report hold exactly
\* the matches of the files before the failing entry, and the exit code is
\* 0 when the output file can be opened.
C8_TraversalErrorNotFatal ==
    traversalError =>
        LET ents == Entries(fsStart, scanDirectory)
            before == {ents[j] : j \in 1..(entryIdx - 1)}
        IN /\ pc \in {"report", "exit"}
           /\ fsStart[ents[entryIdx]].kind = "lockeddir"
           /\ opened \subseteq before
           /\ \A k \in Range(keywords), f \in FsPaths :
                 Listed(foundFilesByKeyword, k, f)
                    <=> (f \in before /\ ShouldList(fsStart, k, f))
           /\ pc = "exit" =>
                /\ error \in {"none", "OutputOpenError"}
                /\ CanOpenForWrite(fsStart, outputFileName) =>
                     /\ exitCode = 0
                     /\ fs[outputFileName].lines[1] = HeaderText \o Absolute(scanDirectory)
                     /\ \A k \in Range(keywords), f \in FsPaths :
                           ReportLists(fs[outputFileName].lines, k, f)
                              <=> (f \in before /\ ShouldList(fsStart, k, f))

\* a run that met the error after a match and still wrote its report, while
\* a file behind the failing entry holds the keyword too
C8_Witness ==
    /\ traversalError
    /\ pc = "exit"
    /\ exitCode = 0
    /\ Listed(foundFilesByKeyword, WordUpper, PathP)
    /\ ShouldList(fsStart, WordUpper, PathQ)

(* ------------------------------- C9 ------------------------------------ *)
\* C9 as stated: two consecutive runs with the same arguments write the
\* same report, whatever the output path.
C9_AsStated ==
    \A j \in 1..(Len(runs) - 1) :
        runs[j].args = runs[j + 1].args
        => /\ runs[j].exitCode = runs[j + 1].exitCode
           /\ runs[j].report = runs[j + 1].report

\* the output path names a file the traversal takes as an HTML candidate
OutputIsCandidate(r) ==
    /\ r.outputFileName \in Range(TreeOrder)
    /\ HasHtmlExtension(r.outputFileName)

\* C9 amended: two consecutive runs with the same arguments write the same
\* report unless the output path names a .html or .htm file of the tree.
C9_Repeatable ==
    \A j \in 1..(Len(runs) - 1) :
        (runs[j].args = runs[j + 1].args /\ ~OutputIsCandidate(runs[j]))
        => /\ runs[j].exitCode = runs[j + 1].exitCode
           /\ runs[j].report = runs[j + 1].report

\* two successful runs with the same arguments, the report written into the
\* tree under a name that is not a candidate, with a match reported
C9_Witness ==
    /\ Len(runs) >= 2
    /\ runs[1].args = runs[2].args
    /\ runs[1].outputFileName = PathS
    /\ runs[2].exitCode = 0
    /\ runs[2].index # <<>>

(* ------------------------------- C10 ----------------------------------- *)
\* C10 as stated: after a successful parse no keyword is the empty string.
C10_AsStated ==
    Parsed => \A k \in 1..Len(keywords) : keywords[k] # <<>>

====
